---------------------------- MODULE Spec2Model ----------------------------
(***************************************************************************)
(* dig-network-block: the L2 block commitment scheme.                      *)
(*                                                                         *)
(* Hashing and Merkle primitives (dig_l2_definition.rs), the emission      *)
(* record, the block body and header with their roots, the validating      *)
(* constructor DigL2Block::new and the build workflow DigL2Block::build.    *)
(*                                                                         *)
(* SHA-256 is modelled as collision-free: a digest is the record of its    *)
(* domain tag and of the byte segments concatenated after it.  No domain   *)
(* tag is a prefix of another and every segment after a tag (or after a    *)
(* header field label, none of which is a prefix of another) has a fixed   *)
(* width, so two digests are equal exactly when these records are.         *)
(* A 32- or 48-byte array [x; n], as the callers and the tests build       *)
(* them, is the single token x.                                            *)
(***************************************************************************)
EXTENDS Integers, Sequences, FiniteSets, TLC

VARIABLES
    salt,              \* fixes the bytewise order of the SHA-256 digests
    header,            \* the L2BlockHeader the caller holds
    body,              \* the L2BlockBody the caller holds
    prev,              \* header and body before the caller's last change
    expected_version,  \* Option<u32> last passed to DigL2Block::new
    result,            \* Result of the last DigL2Block::new / ::build
    inputs,            \* the arguments last passed to DigL2Block::build
    op,                \* the last step taken
    changed            \* the caller changed the pair after assembling it

vars == <<salt, header, body, prev, expected_version, result, inputs, op,
          changed>>

---------------------------------------------------------------------------
(* Bounds of the model.                                                    *)

\* Width in bits of the header's u32 counts, scaled down from 32 so that a
\* body can hold 2^CountBits items.
CountBits == 2
\* A body the caller assembles holds at most MaxItems data bytes and
\* emissions together; build is given at most MaxItems data bytes.
MaxItems == 4
\* A body the caller assembles holds at most MaxEmissions emissions.
MaxEmissions == 3
\* build is given at most MaxAttesters attester keys.
MaxAttesters == 2
\* build is given at most MaxExtra extra emissions.
MaxExtra == 1
\* SpecBuildShort gives build at most MaxBuildData data bytes.
MaxBuildData == 2

Bytes == {0, 1}
Keys == {1, 2}
Weights == {1, 2}
Versions == {1, 2}
Salts == {1, 86, 256}

U32_MODULUS == 2 ^ CountBits

---------------------------------------------------------------------------
(* Option and Result.                                                      *)

None == [tag |-> "None"]
Some(v) == [tag |-> "Some", val |-> v]
Ok(v) == [tag |-> "Ok", val |-> v]
Err(e) == [tag |-> "Err", err |-> e]
IsOk(r) == r.tag = "Ok"
IsErr(r) == r.tag = "Err"

---------------------------------------------------------------------------
(* dig_l2_definition.rs: domains and hashing.                              *)

HEADER_FIELD_DOMAIN == "dig:l2:header_field:"
BLOCK_ROOT_DOMAIN == "dig:l2:block_root:"
DATA_HASH_DOMAIN == "dig:l2:data:"
EMISSION_HASH_DOMAIN == "dig:l2:emission:"
MERKLE_LEAF_DOMAIN == "dig:l2:merkle:leaf:"
MERKLE_NODE_DOMAIN == "dig:l2:merkle:node:"
MERKLE_EMPTY_DOMAIN == "dig:l2:merkle:empty:"

\* SHA256(domain || parts...), collision-free.
sha256_concat(domain, parts) == [dom |-> domain, pre |-> parts]

\* A 32-byte array that is no digest the model computes: [x; 32].
Raw32(x) == [dom |-> "raw", pre |-> <<x>>]

\* n.to_le_bytes() of an unsigned integer of `width` bytes.
RECURSIVE to_le_bytes(_, _)
to_le_bytes(n, width) ==
    IF width = 0 THEN <<>>
    ELSE <<n % 256>> \o to_le_bytes(n \div 256, width - 1)

\* `len as u32`: the low bits of a usize.
as_u32(n) == n % U32_MODULUS

COMPUTE_DATA_HASH(data_byte) == sha256_concat(DATA_HASH_DOMAIN, <<data_byte>>)

\* COMPUTE_EMISSION_HASH that leaves the weight out of the preimage.
COMPUTE_EMISSION_HASH_no_weight(pubkey, weight) ==
    sha256_concat(EMISSION_HASH_DOMAIN, <<pubkey>>)

COMPUTE_EMISSION_HASH(pubkey, weight) ==
    sha256_concat(EMISSION_HASH_DOMAIN, <<pubkey>> \o to_le_bytes(weight, 8))

\* One round of the while loop of MERKLE_ROOT: duplicate the last node of
\* an odd level, then hash the pairs left to right.
\* One round that carries the last node of an odd level up as it is.
MerkleNextLevel_odd_carried(level) ==
    LET pairs == [i \in 1..(Len(level) \div 2) |->
                     sha256_concat(MERKLE_NODE_DOMAIN,
                                   <<level[2 * i - 1], level[2 * i]>>)]
    IN  IF Len(level) % 2 = 1 THEN Append(pairs, level[Len(level)])
        ELSE pairs

\* One round that pairs the last node of an odd level with the empty-domain
\* hash instead of itself.
MerkleNextLevel_odd_padded(level) ==
    LET lv == IF Len(level) % 2 = 1
              THEN Append(level, sha256_concat(MERKLE_EMPTY_DOMAIN, <<>>))
              ELSE level
    IN  [i \in 1..(Len(lv) \div 2) |->
            sha256_concat(MERKLE_NODE_DOMAIN, <<lv[2 * i - 1], lv[2 * i]>>)]

MerkleNextLevel(level) ==
    LET lv == IF Len(level) % 2 = 1 THEN Append(level, level[Len(level)])
              ELSE level
    IN  [i \in 1..(Len(lv) \div 2) |->
            sha256_concat(MERKLE_NODE_DOMAIN, <<lv[2 * i - 1], lv[2 * i]>>)]

RECURSIVE MerkleReduce(_)
MerkleReduce(level) ==
    IF Len(level) > 1 THEN MerkleReduce(MerkleNextLevel(level)) ELSE level[1]

\* MERKLE_ROOT that returns a single leaf as it is.
MERKLE_ROOT_single_unhashed(leaves) ==
    IF leaves = <<>> THEN sha256_concat(MERKLE_EMPTY_DOMAIN, <<>>)
    ELSE IF Len(leaves) = 1 THEN leaves[1]
    ELSE MerkleReduce([i \in 1..Len(leaves) |->
                          sha256_concat(MERKLE_LEAF_DOMAIN, <<leaves[i]>>)])

MERKLE_ROOT(leaves) ==
    IF leaves = <<>> THEN sha256_concat(MERKLE_EMPTY_DOMAIN, <<>>)
    ELSE MerkleReduce([i \in 1..Len(leaves) |->
                          sha256_concat(MERKLE_LEAF_DOMAIN, <<leaves[i]>>)])

COMPUTE_BODY_ROOT(data_root, emissions_root) ==
    MERKLE_ROOT(<<data_root, emissions_root>>)

\* COMPUTE_HEADER_ROOT whose emissions_count leaf hashes dc_bytes again.
COMPUTE_HEADER_ROOT_count_reused(args) ==
    LET v_bytes == to_le_bytes(args.version, 4)
        e_bytes == to_le_bytes(args.epoch, 8)
        dc_bytes == to_le_bytes(args.data_count, 4)
        leaves == <<
            sha256_concat(HEADER_FIELD_DOMAIN, <<"version">> \o v_bytes),
            sha256_concat(HEADER_FIELD_DOMAIN, <<"network_id", args.network_id>>),
            sha256_concat(HEADER_FIELD_DOMAIN, <<"epoch">> \o e_bytes),
            sha256_concat(HEADER_FIELD_DOMAIN,
                          <<"prev_block_root", args.prev_block_root>>),
            sha256_concat(HEADER_FIELD_DOMAIN, <<"body_root", args.body_root>>),
            sha256_concat(HEADER_FIELD_DOMAIN, <<"data_count">> \o dc_bytes),
            sha256_concat(HEADER_FIELD_DOMAIN, <<"emissions_count">> \o dc_bytes),
            sha256_concat(HEADER_FIELD_DOMAIN,
                          <<"proposer_pubkey", args.proposer_pubkey>>) >>
    IN  MERKLE_ROOT(leaves)

COMPUTE_HEADER_ROOT(args) ==
    LET v_bytes == to_le_bytes(args.version, 4)
        e_bytes == to_le_bytes(args.epoch, 8)
        dc_bytes == to_le_bytes(args.data_count, 4)
        ec_bytes == to_le_bytes(args.emissions_count, 4)
        leaves == <<
            sha256_concat(HEADER_FIELD_DOMAIN, <<"version">> \o v_bytes),
            sha256_concat(HEADER_FIELD_DOMAIN, <<"network_id", args.network_id>>),
            sha256_concat(HEADER_FIELD_DOMAIN, <<"epoch">> \o e_bytes),
            sha256_concat(HEADER_FIELD_DOMAIN,
                          <<"prev_block_root", args.prev_block_root>>),
            sha256_concat(HEADER_FIELD_DOMAIN, <<"body_root", args.body_root>>),
            sha256_concat(HEADER_FIELD_DOMAIN, <<"data_count">> \o dc_bytes),
            sha256_concat(HEADER_FIELD_DOMAIN, <<"emissions_count">> \o ec_bytes),
            sha256_concat(HEADER_FIELD_DOMAIN,
                          <<"proposer_pubkey", args.proposer_pubkey>>) >>
    IN  MERKLE_ROOT(leaves)

\* COMPUTE_BLOCK_ROOT that composes the two roots as the body root does.
COMPUTE_BLOCK_ROOT_as_merkle(header_root, body_root) ==
    MERKLE_ROOT(<<header_root, body_root>>)

COMPUTE_BLOCK_ROOT(header_root, body_root) ==
    sha256_concat(BLOCK_ROOT_DOMAIN, <<header_root, body_root>>)

NoAttestersForNonZeroShare == [kind |-> "NoAttestersForNonZeroShare"]

\* BUILD_CONSENSUS_EMISSIONS that hands every attester the whole share.
BUILD_CONSENSUS_EMISSIONS_undivided(proposer_pubkey, attester_pubkeys, proposer_reward_share, attester_reward_share) ==
    LET out == <<<<proposer_pubkey, proposer_reward_share>>>>
    IN  IF attester_pubkeys = <<>>
        THEN IF attester_reward_share > 0
             THEN Err(NoAttestersForNonZeroShare)
             ELSE Ok(out)
        ELSE Ok(out \o [i \in 1..Len(attester_pubkeys) |->
                           <<attester_pubkeys[i], attester_reward_share>>])

\* BUILD_CONSENSUS_EMISSIONS that returns the proposer alone whenever there
\* is no attester.
BUILD_CONSENSUS_EMISSIONS_no_policy(proposer_pubkey, attester_pubkeys, proposer_reward_share, attester_reward_share) ==
    LET out == <<<<proposer_pubkey, proposer_reward_share>>>>
    IN  IF attester_pubkeys = <<>>
        THEN Ok(out)
        ELSE LET per_attester ==
                     attester_reward_share \div Len(attester_pubkeys)
             IN  Ok(out \o [i \in 1..Len(attester_pubkeys) |->
                               <<attester_pubkeys[i], per_attester>>])

BUILD_CONSENSUS_EMISSIONS(proposer_pubkey, attester_pubkeys, proposer_reward_share, attester_reward_share) ==
    LET out == <<<<proposer_pubkey, proposer_reward_share>>>>
    IN  IF attester_pubkeys = <<>>
        THEN IF attester_reward_share > 0
             THEN Err(NoAttestersForNonZeroShare)
             ELSE Ok(out)
        ELSE LET per_attester ==
                     attester_reward_share \div Len(attester_pubkeys)
             IN  Ok(out \o [i \in 1..Len(attester_pubkeys) |->
                               <<attester_pubkeys[i], per_attester>>])

---------------------------------------------------------------------------
(* Order of digests.  `leaves.sort_unstable()` orders [u8; 32] digests     *)
(* bytewise.  The bytes of a SHA-256 digest are unrelated to its preimage, *)
(* so the order of two digests is a fixed total order the model does not   *)
(* know: `salt` picks one, by scrambling the preimage bytes.               *)

Scramble(x) == ((x + 1) * salt) % 257

RECURSIVE LexLess(_, _)
LexLess(s, t) ==
    IF s = <<>> \/ t = <<>> THEN s = <<>> /\ t # <<>>
    ELSE IF s[1] # t[1] THEN Scramble(s[1]) < Scramble(t[1])
    ELSE LexLess(Tail(s), Tail(t))

\* a < b for two leaf digests of the same domain.
DigestLess(a, b) == LexLess(a.pre, b.pre)

\* Ascending insertion of x into an ascending sequence.
SortedInsert(x, sorted) ==
    LET later == {i \in 1..Len(sorted) : DigestLess(x, sorted[i])}
        pos == IF later = {} THEN Len(sorted) + 1
               ELSE CHOOSE i \in later : \A j \in later : i <= j
    IN  SubSeq(sorted, 1, pos - 1) \o <<x>> \o SubSeq(sorted, pos, Len(sorted))

\* leaves.sort_unstable(): the ascending arrangement of the digests.
RECURSIVE sort_unstable(_)
sort_unstable(leaves) ==
    IF leaves = <<>> THEN <<>>
    ELSE SortedInsert(leaves[1], sort_unstable(Tail(leaves)))

---------------------------------------------------------------------------
(* emission.rs, body.rs.                                                   *)

Emission(pubkey, weight) == [pubkey |-> pubkey, weight |-> weight]

Emission_calculate_root(e) == COMPUTE_EMISSION_HASH(e.pubkey, e.weight)

L2BlockBody(data, emissions) == [data |-> data, emissions |-> emissions]

\* calculate_data_root without leaves.sort_unstable().
calculate_data_root_unsorted(b) ==
    MERKLE_ROOT([i \in 1..Len(b.data) |-> COMPUTE_DATA_HASH(b.data[i])])

calculate_data_root(b) ==
    LET leaves == [i \in 1..Len(b.data) |-> COMPUTE_DATA_HASH(b.data[i])]
    IN  MERKLE_ROOT(sort_unstable(leaves))

\* calculate_emissions_root without leaves.sort_unstable().
calculate_emissions_root_unsorted(b) ==
    MERKLE_ROOT([i \in 1..Len(b.emissions) |->
                    Emission_calculate_root(b.emissions[i])])

calculate_emissions_root(b) ==
    LET leaves == [i \in 1..Len(b.emissions) |->
                      Emission_calculate_root(b.emissions[i])]
    IN  MERKLE_ROOT(sort_unstable(leaves))

L2BlockBody_calculate_root(b) ==
    LET d == calculate_data_root(b)
        e == calculate_emissions_root(b)
    IN  COMPUTE_BODY_ROOT(d, e)

---------------------------------------------------------------------------
(* header.rs.                                                              *)

L2BlockHeader_calculate_root(h) == COMPUTE_HEADER_ROOT(h)

VersionMismatch(expected, found) ==
    [kind |-> "VersionMismatch", expected |-> expected, found |-> found]

CountMismatch(field, expected, actual) ==
    [kind |-> "CountMismatch", field |-> field,
     expected |-> expected, actual |-> actual]

validate_version(h, expected) ==
    IF h.version # expected
    THEN Err(VersionMismatch(expected, h.version))
    ELSE Ok(<<>>)

\* validate_counts that checks data_count alone.
validate_counts_data_only(h, data_len, emissions_len) ==
    IF h.data_count # data_len
    THEN Err(CountMismatch("data_count", h.data_count, data_len))
    ELSE Ok(<<>>)

\* validate_counts that checks emissions_count before data_count.
validate_counts_emissions_first(h, data_len, emissions_len) ==
    IF h.emissions_count # emissions_len
    THEN Err(CountMismatch("emissions_count", h.emissions_count, emissions_len))
    ELSE IF h.data_count # data_len
    THEN Err(CountMismatch("data_count", h.data_count, data_len))
    ELSE Ok(<<>>)

validate_counts(h, data_len, emissions_len) ==
    IF h.data_count # data_len
    THEN Err(CountMismatch("data_count", h.data_count, data_len))
    ELSE IF h.emissions_count # emissions_len
    THEN Err(CountMismatch("emissions_count", h.emissions_count, emissions_len))
    ELSE Ok(<<>>)

---------------------------------------------------------------------------
(* emission_config.rs.                                                     *)

ConsensusEmissionConfig(proposer_reward_share, attester_reward_share) ==
    [proposer_reward_share |-> proposer_reward_share,
     attester_reward_share |-> attester_reward_share]

NonZeroAttesterShareWithNoAttesters ==
    [kind |-> "NonZeroAttesterShareWithNoAttesters"]

\* validate_for_attesters with `||` in place of `&&`.
validate_for_attesters_either(cfg, attesters_len) ==
    IF attesters_len = 0 \/ cfg.attester_reward_share > 0
    THEN Err(NonZeroAttesterShareWithNoAttesters)
    ELSE Ok(<<>>)

validate_for_attesters(cfg, attesters_len) ==
    IF attesters_len = 0 /\ cfg.attester_reward_share > 0
    THEN Err(NonZeroAttesterShareWithNoAttesters)
    ELSE Ok(<<>>)

---------------------------------------------------------------------------
(* block.rs.                                                               *)

\* BlockError: the #[from] conversions the `?` operator applies.
BlockError_Header(e) == [kind |-> "Header", source |-> e]
BlockError_Definitions(e) == [kind |-> "Definitions", source |-> e]
BlockError_Config(e) == [kind |-> "Config", source |-> e]
BodyRootMismatch(header_body_root, calculated) ==
    [kind |-> "BodyRootMismatch", header_body_root |-> header_body_root,
     calculated |-> calculated]

DigL2Block(h, b) == [header |-> h, body |-> b]

DigL2Block_calculate_root(blk) ==
    LET header_root == L2BlockHeader_calculate_root(blk.header)
        body_root == L2BlockBody_calculate_root(blk.body)
    IN  COMPUTE_BLOCK_ROOT(header_root, body_root)

\* DigL2Block::new that validates the counts before it compares the roots.
DigL2Block_new_counts_first(h, b, expected) ==
    LET vcheck == IF expected.tag = "Some"
                  THEN validate_version(h, expected.val)
                  ELSE Ok(<<>>)
        calc_body_root == L2BlockBody_calculate_root(b)
        ccheck == validate_counts(h, Len(b.data), Len(b.emissions))
    IN  IF IsErr(vcheck) THEN Err(BlockError_Header(vcheck.err))
        ELSE IF IsErr(ccheck) THEN Err(BlockError_Header(ccheck.err))
        ELSE IF h.body_root # calc_body_root
        THEN Err(BodyRootMismatch(h.body_root, calc_body_root))
        ELSE Ok(DigL2Block(h, b))

\* DigL2Block::new that validates the version after the roots and counts.
DigL2Block_new_version_last(h, b, expected) ==
    LET vcheck == IF expected.tag = "Some"
                  THEN validate_version(h, expected.val)
                  ELSE Ok(<<>>)
        calc_body_root == L2BlockBody_calculate_root(b)
        ccheck == validate_counts(h, Len(b.data), Len(b.emissions))
    IN  IF h.body_root # calc_body_root
        THEN Err(BodyRootMismatch(h.body_root, calc_body_root))
        ELSE IF IsErr(ccheck) THEN Err(BlockError_Header(ccheck.err))
        ELSE IF IsErr(vcheck) THEN Err(BlockError_Header(vcheck.err))
        ELSE Ok(DigL2Block(h, b))

DigL2Block_new(h, b, expected) ==
    LET vcheck == IF expected.tag = "Some"
                  THEN validate_version(h, expected.val)
                  ELSE Ok(<<>>)
        calc_body_root == L2BlockBody_calculate_root(b)
        ccheck == validate_counts(h, Len(b.data), Len(b.emissions))
    IN  IF IsErr(vcheck) THEN Err(BlockError_Header(vcheck.err))
        ELSE IF h.body_root # calc_body_root
        THEN Err(BodyRootMismatch(h.body_root, calc_body_root))
        ELSE IF IsErr(ccheck) THEN Err(BlockError_Header(ccheck.err))
        ELSE Ok(DigL2Block(h, b))

\* DigL2Block::build without the call of validate_for_attesters.
DigL2Block_build_unvalidated(version, network_id, epoch, prev_block_root, proposer_pubkey, data, extra_emissions, attester_pubkeys, cfg) ==
    LET pcheck == validate_for_attesters(cfg, Len(attester_pubkeys))
        tuples == BUILD_CONSENSUS_EMISSIONS(proposer_pubkey, attester_pubkeys,
                      cfg.proposer_reward_share, cfg.attester_reward_share)
        emissions == [i \in 1..Len(tuples.val) |->
                         Emission(tuples.val[i][1], tuples.val[i][2])]
                     \o extra_emissions
        b == L2BlockBody(data, emissions)
        body_root == L2BlockBody_calculate_root(b)
        h == [version |-> version,
              network_id |-> network_id,
              epoch |-> epoch,
              prev_block_root |-> prev_block_root,
              body_root |-> body_root,
              data_count |-> as_u32(Len(b.data)),
              emissions_count |-> as_u32(Len(b.emissions)),
              proposer_pubkey |-> proposer_pubkey]
    IN  IF IsErr(tuples) THEN Err(BlockError_Definitions(tuples.err))
        ELSE Ok(DigL2Block(h, b))

\* DigL2Block::build that puts the extra emissions before the consensus
\* emissions.
DigL2Block_build_extras_first(version, network_id, epoch, prev_block_root, proposer_pubkey, data, extra_emissions, attester_pubkeys, cfg) ==
    LET pcheck == validate_for_attesters(cfg, Len(attester_pubkeys))
        tuples == BUILD_CONSENSUS_EMISSIONS(proposer_pubkey, attester_pubkeys,
                      cfg.proposer_reward_share, cfg.attester_reward_share)
        emissions == extra_emissions
                     \o [i \in 1..Len(tuples.val) |->
                            Emission(tuples.val[i][1], tuples.val[i][2])]
        b == L2BlockBody(data, emissions)
        body_root == L2BlockBody_calculate_root(b)
        h == [version |-> version,
              network_id |-> network_id,
              epoch |-> epoch,
              prev_block_root |-> prev_block_root,
              body_root |-> body_root,
              data_count |-> as_u32(Len(b.data)),
              emissions_count |-> as_u32(Len(b.emissions)),
              proposer_pubkey |-> proposer_pubkey]
    IN  IF IsErr(pcheck) THEN Err(BlockError_Config(pcheck.err))
        ELSE IF IsErr(tuples) THEN Err(BlockError_Definitions(tuples.err))
        ELSE Ok(DigL2Block(h, b))

\* DigL2Block::build that fills prev_block_root with the body root.
DigL2Block_build_prev_is_body_root(version, network_id, epoch, prev_block_root, proposer_pubkey, data, extra_emissions, attester_pubkeys, cfg) ==
    LET pcheck == validate_for_attesters(cfg, Len(attester_pubkeys))
        tuples == BUILD_CONSENSUS_EMISSIONS(proposer_pubkey, attester_pubkeys,
                      cfg.proposer_reward_share, cfg.attester_reward_share)
        emissions == [i \in 1..Len(tuples.val) |->
                         Emission(tuples.val[i][1], tuples.val[i][2])]
                     \o extra_emissions
        b == L2BlockBody(data, emissions)
        body_root == L2BlockBody_calculate_root(b)
        h == [version |-> version,
              network_id |-> network_id,
              epoch |-> epoch,
              prev_block_root |-> body_root,
              body_root |-> body_root,
              data_count |-> as_u32(Len(b.data)),
              emissions_count |-> as_u32(Len(b.emissions)),
              proposer_pubkey |-> proposer_pubkey]
    IN  IF IsErr(pcheck) THEN Err(BlockError_Config(pcheck.err))
        ELSE IF IsErr(tuples) THEN Err(BlockError_Definitions(tuples.err))
        ELSE Ok(DigL2Block(h, b))

\* DigL2Block::build that builds the consensus emissions before it
\* validates the policy.
DigL2Block_build_emissions_first(version, network_id, epoch, prev_block_root, proposer_pubkey, data, extra_emissions, attester_pubkeys, cfg) ==
    LET pcheck == validate_for_attesters(cfg, Len(attester_pubkeys))
        tuples == BUILD_CONSENSUS_EMISSIONS(proposer_pubkey, attester_pubkeys,
                      cfg.proposer_reward_share, cfg.attester_reward_share)
        emissions == [i \in 1..Len(tuples.val) |->
                         Emission(tuples.val[i][1], tuples.val[i][2])]
                     \o extra_emissions
        b == L2BlockBody(data, emissions)
        body_root == L2BlockBody_calculate_root(b)
        h == [version |-> version,
              network_id |-> network_id,
              epoch |-> epoch,
              prev_block_root |-> prev_block_root,
              body_root |-> body_root,
              data_count |-> as_u32(Len(b.data)),
              emissions_count |-> as_u32(Len(b.emissions)),
              proposer_pubkey |-> proposer_pubkey]
    IN  IF IsErr(tuples) THEN Err(BlockError_Definitions(tuples.err))
        ELSE IF IsErr(pcheck) THEN Err(BlockError_Config(pcheck.err))
        ELSE Ok(DigL2Block(h, b))

DigL2Block_build(version, network_id, epoch, prev_block_root, proposer_pubkey, data, extra_emissions, attester_pubkeys, cfg) ==
    LET pcheck == validate_for_attesters(cfg, Len(attester_pubkeys))
        tuples == BUILD_CONSENSUS_EMISSIONS(proposer_pubkey, attester_pubkeys,
                      cfg.proposer_reward_share, cfg.attester_reward_share)
        emissions == [i \in 1..Len(tuples.val) |->
                         Emission(tuples.val[i][1], tuples.val[i][2])]
                     \o extra_emissions
        b == L2BlockBody(data, emissions)
        body_root == L2BlockBody_calculate_root(b)
        h == [version |-> version,
              network_id |-> network_id,
              epoch |-> epoch,
              prev_block_root |-> prev_block_root,
              body_root |-> body_root,
              data_count |-> as_u32(Len(b.data)),
              emissions_count |-> as_u32(Len(b.emissions)),
              proposer_pubkey |-> proposer_pubkey]
    IN  IF IsErr(pcheck) THEN Err(BlockError_Config(pcheck.err))
        ELSE IF IsErr(tuples) THEN Err(BlockError_Definitions(tuples.err))
        ELSE Ok(DigL2Block(h, b))

\* tests::make_header_for_body: the header a caller assembles for a body.
make_header_for_body(b) ==
    [version |-> 1,
     network_id |-> 171,
     epoch |-> 7,
     prev_block_root |-> Raw32(0),
     body_root |-> L2BlockBody_calculate_root(b),
     data_count |-> as_u32(Len(b.data)),
     emissions_count |-> as_u32(Len(b.emissions)),
     proposer_pubkey |-> 9]

\* tests::sample_header (header.rs).
sample_header ==
    [version |-> 1,
     network_id |-> 1,
     epoch |-> 10,
     prev_block_root |-> Raw32(2),
     body_root |-> Raw32(3),
     data_count |-> 2,
     emissions_count |-> 1,
     proposer_pubkey |-> 9]

---------------------------------------------------------------------------
(* The values the model draws from.                                        *)

SeqsUpTo(S, n) == UNION {[1..k -> S] : k \in 0..n}

EmissionSet == {Emission(k, w) : k \in Keys, w \in Weights}

BodySet ==
    UNION {{L2BlockBody(d, e) : d \in SeqsUpTo(Bytes, MaxItems - Len(e))} :
           e \in SeqsUpTo(EmissionSet, MaxEmissions)}

U32Set == 0..(U32_MODULUS - 1)

NoResult == [tag |-> "None"]
NoArgs == [tag |-> "None"]

Pair(h, b) == [header |-> h, body |-> b]

Room == Len(body.data) + Len(body.emissions) < MaxItems

Permuted(s, p) == [i \in 1..Len(s) |-> s[p[i]]]

---------------------------------------------------------------------------
(* The caller's changes to the public fields of the body and the header.   *)

\* What every change does besides the field it writes.
Changes(name) ==
    /\ prev' = Pair(header, body)
    /\ result' = NoResult
    /\ expected_version' = None
    /\ op' = name
    /\ changed' = TRUE
    /\ UNCHANGED <<salt, inputs>>

\* body.data.push(b)
PushData(b) ==
    /\ Room
    /\ body' = [body EXCEPT !.data = Append(@, b)]
    /\ UNCHANGED header
    /\ Changes("push_data")

\* body.data.pop()
PopData ==
    /\ body.data # <<>>
    /\ body' = [body EXCEPT !.data = SubSeq(@, 1, Len(@) - 1)]
    /\ UNCHANGED header
    /\ Changes("pop_data")

\* body.data[i] = b, another value
SetDataByte(i, b) ==
    /\ i \in 1..Len(body.data)
    /\ b # body.data[i]
    /\ body' = [body EXCEPT !.data[i] = b]
    /\ UNCHANGED header
    /\ Changes("set_data")

\* the data bytes in another order
PermuteData(p) ==
    /\ Permuted(body.data, p) # body.data
    /\ body' = [body EXCEPT !.data = Permuted(@, p)]
    /\ UNCHANGED header
    /\ Changes("permute_data")

\* body.emissions.push(e)
PushEmission(e) ==
    /\ Room
    /\ Len(body.emissions) < MaxEmissions
    /\ body' = [body EXCEPT !.emissions = Append(@, e)]
    /\ UNCHANGED header
    /\ Changes("push_emission")

\* body.emissions.pop()
PopEmission ==
    /\ body.emissions # <<>>
    /\ body' = [body EXCEPT !.emissions = SubSeq(@, 1, Len(@) - 1)]
    /\ UNCHANGED header
    /\ Changes("pop_emission")

\* body.emissions[i].pubkey = k, another key
SetEmissionPubkey(i, k) ==
    /\ i \in 1..Len(body.emissions)
    /\ k # body.emissions[i].pubkey
    /\ body' = [body EXCEPT !.emissions[i].pubkey = k]
    /\ UNCHANGED header
    /\ Changes("set_pubkey")

\* body.emissions[i].weight = w, another weight
SetEmissionWeight(i, w) ==
    /\ i \in 1..Len(body.emissions)
    /\ w # body.emissions[i].weight
    /\ body' = [body EXCEPT !.emissions[i].weight = w]
    /\ UNCHANGED header
    /\ Changes("set_weight")

\* the emissions in another order
PermuteEmissions(p) ==
    /\ Permuted(body.emissions, p) # body.emissions
    /\ body' = [body EXCEPT !.emissions = Permuted(@, p)]
    /\ UNCHANGED header
    /\ Changes("permute_emissions")

\* header.data_count = dc, another count
SetDataCount(dc) ==
    /\ dc # header.data_count
    /\ header' = [header EXCEPT !.data_count = dc]
    /\ UNCHANGED body
    /\ Changes("set_data_count")

\* header.emissions_count = ec, another count
SetEmissionsCount(ec) ==
    /\ ec # header.emissions_count
    /\ header' = [header EXCEPT !.emissions_count = ec]
    /\ UNCHANGED body
    /\ Changes("set_emissions_count")

\* header.version = v, another version
SetVersion(v) ==
    /\ v # header.version
    /\ header' = [header EXCEPT !.version = v]
    /\ UNCHANGED body
    /\ Changes("set_version")

\* header.body_root = r
SetBodyRoot(r) ==
    /\ r # header.body_root
    /\ header' = [header EXCEPT !.body_root = r]
    /\ UNCHANGED body
    /\ Changes("set_body_root")

\* header = h2, another header (a struct literal)
ReplaceHeader(h2) ==
    /\ h2 # header
    /\ header' = h2
    /\ UNCHANGED body
    /\ Changes("replace_header")

\* the values of data_count and emissions_count exchanged
SwapCounts ==
    /\ header.data_count # header.emissions_count
    /\ header' = [header EXCEPT !.data_count = header.emissions_count,
                                !.emissions_count = header.data_count]
    /\ UNCHANGED body
    /\ Changes("swap_counts")

ChangeBody ==
    \/ \E b \in Bytes : PushData(b)
    \/ PopData
    \/ \E i \in 1..MaxItems, b \in Bytes : SetDataByte(i, b)
    \/ \E p \in Permutations(1..Len(body.data)) : PermuteData(p)
    \/ \E e \in EmissionSet : PushEmission(e)
    \/ PopEmission
    \/ \E i \in 1..MaxEmissions, k \in Keys : SetEmissionPubkey(i, k)
    \/ \E i \in 1..MaxEmissions, w \in Weights : SetEmissionWeight(i, w)
    \/ \E p \in Permutations(1..Len(body.emissions)) : PermuteEmissions(p)

ChangeHeader ==
    \/ \E dc \in U32Set : SetDataCount(dc)
    \/ \E ec \in U32Set : SetEmissionsCount(ec)
    \/ \E v \in Versions : SetVersion(v)
    \/ SetBodyRoot(Raw32(3))

---------------------------------------------------------------------------
(* DigL2Block::new on the pair the caller holds.                           *)

New(ev) ==
    /\ result' = DigL2Block_new(header, body, ev)
    /\ expected_version' = ev
    /\ op' = "new"
    /\ UNCHANGED <<salt, header, body, prev, inputs, changed>>

ExpectedVersions == {None} \cup {Some(v) : v \in Versions}

---------------------------------------------------------------------------
(* Spec: a caller assembles a body and its header (make_body and           *)
(* make_header_for_body of the tests), changes at most one thing, and      *)
(* hands the pair to DigL2Block::new.                                      *)

Init ==
    /\ salt \in Salts
    /\ body \in BodySet
    /\ header = make_header_for_body(body)
    /\ prev = Pair(header, body)
    /\ expected_version = None
    /\ result = NoResult
    /\ inputs = NoArgs
    /\ op = "assemble"
    /\ changed = FALSE

Next ==
    \/ ~changed /\ ChangeBody
    \/ ~changed /\ ChangeHeader
    \/ \E ev \in ExpectedVersions : New(ev)

Spec == Init /\ [][Next]_vars

---------------------------------------------------------------------------
(* SpecBuild: DigL2Block::build from raw inputs, then DigL2Block::new on   *)
(* the header and body of the block it returned.                           *)

ProposerShares == {12}
AttesterShares == {0, 1, 3}

BuildArgs ==
    [version : Versions,
     network_id : {171},
     epoch : {7},
     prev_block_root : {Raw32(0)},
     proposer_pubkey : Keys,
     data : SeqsUpTo(Bytes, MaxItems),
     extra_emissions : SeqsUpTo(EmissionSet, MaxExtra),
     attester_pubkeys : SeqsUpTo(Keys, MaxAttesters),
     cfg : {ConsensusEmissionConfig(p, a) :
                p \in ProposerShares, a \in AttesterShares}]

Build(a) ==
    LET r == DigL2Block_build(a.version, a.network_id, a.epoch,
                 a.prev_block_root, a.proposer_pubkey, a.data,
                 a.extra_emissions, a.attester_pubkeys, a.cfg)
    IN  /\ result' = r
        /\ inputs' = Some(a)
        /\ header' = IF IsOk(r) THEN r.val.header ELSE header
        /\ body' = IF IsOk(r) THEN r.val.body ELSE body
        /\ prev' = Pair(header', body')
        /\ expected_version' = None
        /\ op' = "build"
        /\ UNCHANGED <<salt, changed>>

InitBuild ==
    /\ salt \in Salts
    /\ header = sample_header
    /\ body = L2BlockBody(<<>>, <<>>)
    /\ prev = Pair(header, body)
    /\ expected_version = None
    /\ result = NoResult
    /\ inputs = NoArgs
    /\ op = "init"
    /\ changed = FALSE

NextBuild ==
    \/ op = "init" /\ \E a \in BuildArgs : Build(a)
    \/ op = "build" /\ IsOk(result) /\ \E ev \in ExpectedVersions : New(ev)

SpecBuild == InitBuild /\ [][NextBuild]_vars

---------------------------------------------------------------------------
(* The validating constructor.                                             *)

VersionPasses ==
    \/ expected_version.tag = "None"
    \/ expected_version.tag = "Some" /\ expected_version.val = header.version

IsBodyRootMismatch(r) == IsErr(r) /\ r.err.kind = "BodyRootMismatch"

IsHeaderError(r, kind) ==
    IsErr(r) /\ r.err.kind = "Header" /\ r.err.source.kind = kind

\* C1: DigL2Block::new returns Ok exactly when the version check passes or
\* is skipped and the header's body_root, data_count and emissions_count
\* equal the body's root and lengths; the block it returns holds the given
\* header and body.
C1_NewOkIffConsistent ==
    op = "new" =>
        /\ IsOk(result) <=>
              /\ VersionPasses
              /\ header.body_root = L2BlockBody_calculate_root(body)
              /\ header.data_count = Len(body.data)
              /\ header.emissions_count = Len(body.emissions)
        /\ IsOk(result) => result.val = DigL2Block(header, body)

\* new accepted a pair under an expected version.
C1_Witness ==
    op = "new" /\ IsOk(result) /\ expected_version.tag = "Some"
        /\ body.data # <<>> /\ body.emissions # <<>>

\* C2: when the version check passes or is skipped and the roots differ,
\* new returns BodyRootMismatch with the declared and the calculated root,
\* whether or not the counts match; CountMismatch is returned only when the
\* roots are equal.
C2_RootMismatchBeforeCounts ==
    op = "new" =>
        LET calc == L2BlockBody_calculate_root(body)
        IN  /\ (VersionPasses /\ header.body_root # calc) =>
                   result = Err(BodyRootMismatch(header.body_root, calc))
            /\ IsHeaderError(result, "CountMismatch") =>
                   header.body_root = calc

\* The roots differ and a count is wrong too: BodyRootMismatch is reported.
C2_Witness ==
    /\ op = "new"
    /\ IsBodyRootMismatch(result)
    /\ header.data_count # Len(body.data)

\* C3: a header accepted with one body and handed to new with a body of
\* another length is rejected with BodyRootMismatch.
C3_OtherLengthIsRootMismatch ==
    (/\ op = "new"
     /\ changed
     /\ header = prev.header
     /\ IsOk(DigL2Block_new(prev.header, prev.body, expected_version))
     /\ \/ Len(body.data) # Len(prev.body.data)
        \/ Len(body.emissions) # Len(prev.body.emissions))
    => IsBodyRootMismatch(result)

\* C4: the header and body of a block that build returned pass new with no
\* expected version.
C4_BuildThenNewSucceeds ==
    (op = "new" /\ inputs.tag = "Some" /\ expected_version.tag = "None")
    => IsOk(result)

\* C5: with an expected version that differs from the header's, new returns
\* VersionMismatch whatever else is wrong; with none, it never does.
C5_VersionCheckedFirst ==
    op = "new" =>
        /\ (expected_version.tag = "Some"
              /\ header.version # expected_version.val) =>
               result = Err(BlockError_Header(
                   VersionMismatch(expected_version.val, header.version)))
        /\ expected_version.tag = "None" =>
               ~IsHeaderError(result, "VersionMismatch")

\* The version, the body root and a count are all wrong: VersionMismatch.
C5_Witness ==
    /\ op = "new"
    /\ IsHeaderError(result, "VersionMismatch")
    /\ header.body_root # L2BlockBody_calculate_root(body)
    /\ header.data_count # Len(body.data)

---------------------------------------------------------------------------
(* SpecBlock: a caller assembles a body and its header and changes one     *)
(* thing; the roots of the block before and after the change are compared. *)

NextBlock ==
    \/ ~changed /\ ChangeBody
    \/ ~changed /\ ChangeHeader

SpecBlock == Init /\ [][NextBlock]_vars

\* C11: the root of a block is the hash of BLOCK_ROOT_DOMAIN, the header
\* root and the body root, not the Merkle root of the two; a block and the
\* block before the caller's change have the same root only if their header
\* roots are equal and their body roots are equal.
C11_BlockRootIsDirectHash ==
    LET header_root == L2BlockHeader_calculate_root(header)
        body_root == L2BlockBody_calculate_root(body)
        prev_header_root == L2BlockHeader_calculate_root(prev.header)
        prev_body_root == L2BlockBody_calculate_root(prev.body)
        root == DigL2Block_calculate_root(DigL2Block(header, body))
    IN  /\ root = sha256_concat(BLOCK_ROOT_DOMAIN, <<header_root, body_root>>)
        /\ root # MERKLE_ROOT(<<header_root, body_root>>)
        /\ root = DigL2Block_calculate_root(prev) =>
               header_root = prev_header_root /\ body_root = prev_body_root

\* The caller's change gave another block with the same block root.
C11_Witness ==
    /\ changed
    /\ DigL2Block(header, body) # prev
    /\ DigL2Block_calculate_root(DigL2Block(header, body)) =
           DigL2Block_calculate_root(prev)

---------------------------------------------------------------------------
(* SpecBody: a caller holds a body and changes it; the roots of the body   *)
(* before and after the change are compared.                               *)

InitBody ==
    /\ salt \in Salts
    /\ header = sample_header
    /\ body \in BodySet
    /\ prev = Pair(header, body)
    /\ expected_version = None
    /\ result = NoResult
    /\ inputs = NoArgs
    /\ op = "assemble"
    /\ changed = FALSE

NextBody == ChangeBody

SpecBody == InitBody /\ [][NextBody]_vars

Count(s, x) == Cardinality({i \in 1..Len(s) : s[i] = x})

\* s and t hold the same multiset of items.
SameBag(s, t) ==
    /\ Len(s) = Len(t)
    /\ \A i \in 1..Len(s) : Count(s, s[i]) = Count(t, s[i])

\* C6: two bodies whose data hold the same multiset of bytes have the same
\* data root.
C6_DataRootOrderIndependent ==
    SameBag(body.data, prev.body.data) =>
        calculate_data_root(body) = calculate_data_root(prev.body)

\* Three or more data bytes were put in another order.
C6_Witness ==
    /\ op = "permute_data"
    /\ Len(body.data) >= 3
    /\ body.data # prev.body.data

\* C7: two bodies whose emissions are the same records in another order
\* have the same emissions root, and with the same data the same body root.
C7_EmissionsRootOrderIndependent ==
    SameBag(body.emissions, prev.body.emissions) =>
        /\ calculate_emissions_root(body) = calculate_emissions_root(prev.body)
        /\ body.data = prev.body.data =>
               L2BlockBody_calculate_root(body) =
                   L2BlockBody_calculate_root(prev.body)

\* Emissions holding two equal records were put in another order.
C7_Witness ==
    /\ op = "permute_emissions"
    /\ body.emissions # prev.body.emissions
    /\ \E i, j \in 1..Len(body.emissions) :
           i # j /\ body.emissions[i] = body.emissions[j]

\* C8: another value for one data byte, or another recipient key or weight
\* for one emission, gives another body root.
C8_SingleFieldChangesRoot ==
    op \in {"set_data", "set_pubkey", "set_weight"} =>
        L2BlockBody_calculate_root(body) #
            L2BlockBody_calculate_root(prev.body)

\* The weight of one of several emissions was changed.
C8_Witness ==
    /\ op = "set_weight"
    /\ Len(body.emissions) >= 2
    /\ body.data # <<>>

\* C9: two bodies whose multisets of data bytes or of emissions differ have
\* different body roots.
C9_RootCommitsToContents ==
    (\/ ~SameBag(body.data, prev.body.data)
     \/ ~SameBag(body.emissions, prev.body.emissions))
    => L2BlockBody_calculate_root(body) #
           L2BlockBody_calculate_root(prev.body)

---------------------------------------------------------------------------
(* SpecHeader: a caller holds a header and once replaces it by another,    *)
(* or exchanges its two counts; the roots before and after are compared.   *)

HeaderCounts == {1, 2}

HeaderSet ==
    [version : Versions,
     network_id : {1, 2},
     epoch : {2, 10},
     prev_block_root : {Raw32(2), Raw32(3)},
     body_root : {Raw32(3), Raw32(4)},
     data_count : HeaderCounts,
     emissions_count : HeaderCounts,
     proposer_pubkey : Keys]

InitHeader ==
    /\ salt \in Salts
    /\ header \in HeaderSet
    /\ body = L2BlockBody(<<>>, <<>>)
    /\ prev = Pair(header, body)
    /\ expected_version = None
    /\ result = NoResult
    /\ inputs = NoArgs
    /\ op = "assemble"
    /\ changed = FALSE

NextHeader ==
    \/ ~changed /\ \E h2 \in HeaderSet : ReplaceHeader(h2)
    \/ ~changed /\ SwapCounts

SpecHeader == InitHeader /\ [][NextHeader]_vars

\* C10: two headers that differ in a field have different header roots; so
\* exchanging different values of data_count and emissions_count changes
\* the header root.
C10_HeaderRootCommitsToFields ==
    header # prev.header =>
        L2BlockHeader_calculate_root(header) #
            L2BlockHeader_calculate_root(prev.header)

\* The two counts of a header were exchanged.
C10_Witness ==
    /\ op = "swap_counts"
    /\ header.data_count = prev.header.emissions_count
    /\ header.emissions_count = prev.header.data_count
    /\ header.data_count # header.emissions_count

---------------------------------------------------------------------------
(* SpecCalls: one call of a function of the library on arguments the       *)
(* caller picks, as the unit tests of each function make it.               *)

\* attester_reward_share values handed to the functions of the policy.
CallShares == {0, 1, 3, 88}

\* usize lengths handed to validate_counts: every u32 and one beyond.
Lengths == 0..U32_MODULUS

\* 32-byte values handed to MERKLE_ROOT: arrays and digests.
Hash32Set ==
    {Raw32(0), Raw32(1), COMPUTE_DATA_HASH(0), MERKLE_ROOT(<<Raw32(0)>>)}

\* sample_header with every pair of declared counts.
CallHeaders ==
    {[sample_header EXCEPT !.data_count = dc, !.emissions_count = ec] :
        dc \in U32Set, ec \in U32Set}

\* What a call leaves behind: its name, its arguments and what it returned.
Call(name, arguments, returned) ==
    /\ op' = name
    /\ inputs' = Some(arguments)
    /\ result' = returned
    /\ UNCHANGED <<salt, header, body, prev, expected_version, changed>>

CallBuildConsensusEmissions(pk, attesters, pshare, ashare) ==
    Call("BUILD_CONSENSUS_EMISSIONS",
         [proposer_pubkey |-> pk, attester_pubkeys |-> attesters,
          proposer_reward_share |-> pshare, attester_reward_share |-> ashare],
         BUILD_CONSENSUS_EMISSIONS(pk, attesters, pshare, ashare))

CallValidateCounts(data_len, emissions_len) ==
    Call("validate_counts",
         [data_len |-> data_len, emissions_len |-> emissions_len],
         validate_counts(header, data_len, emissions_len))

CallValidateForAttesters(cfg, attesters_len) ==
    Call("validate_for_attesters",
         [cfg |-> cfg, attesters_len |-> attesters_len],
         validate_for_attesters(cfg, attesters_len))

CallMerkleRoot(leaves) ==
    Call("MERKLE_ROOT", [leaves |-> leaves], MERKLE_ROOT(leaves))

InitCalls ==
    /\ salt \in Salts
    /\ header \in CallHeaders
    /\ body = L2BlockBody(<<>>, <<>>)
    /\ prev = Pair(header, body)
    /\ expected_version = None
    /\ result = NoResult
    /\ inputs = NoArgs
    /\ op = "assemble"
    /\ changed = FALSE

NextCalls ==
    \/ op = "assemble" /\ \E pk \in Keys, attesters \in SeqsUpTo(Keys, MaxAttesters), pshare \in ProposerShares, ashare \in CallShares : CallBuildConsensusEmissions(pk, attesters, pshare, ashare)
    \/ op = "assemble" /\ \E dl \in Lengths, el \in Lengths : CallValidateCounts(dl, el)
    \/ op = "assemble" /\ \E p \in ProposerShares, a \in CallShares, n \in 0..MaxAttesters : CallValidateForAttesters(ConsensusEmissionConfig(p, a), n)
    \/ op = "assemble" /\ \E leaves \in SeqsUpTo(Hash32Set, MaxItems) : CallMerkleRoot(leaves)

SpecCalls == InitCalls /\ [][NextCalls]_vars

\* The sum of the weights of a list of (key, weight) entries.
RECURSIVE SumWeights(_)
SumWeights(tuples) ==
    IF tuples = <<>> THEN 0 ELSE tuples[1][2] + SumWeights(Tail(tuples))

\* C12: with n >= 1 attesters BUILD_CONSENSUS_EMISSIONS returns 1 + n
\* entries: the proposer's key with the proposer share, then each attester
\* key in the given order with attester_share div n; the attesters' weights
\* sum to at most attester_share and leave less than n undistributed.
C12_ConsensusEmissionsSplit ==
    (op = "BUILD_CONSENSUS_EMISSIONS" /\ inputs.val.attester_pubkeys # <<>>)
    => LET a == inputs.val
           n == Len(a.attester_pubkeys)
           handed == SumWeights(Tail(result.val))
       IN  /\ IsOk(result)
           /\ Len(result.val) = 1 + n
           /\ result.val[1] = <<a.proposer_pubkey, a.proposer_reward_share>>
           /\ \A i \in 1..n :
                  result.val[1 + i] =
                      <<a.attester_pubkeys[i], a.attester_reward_share \div n>>
           /\ handed <= a.attester_reward_share
           /\ a.attester_reward_share - handed < n

\* A share that two different attesters do not divide evenly was split.
C12_Witness ==
    /\ op = "BUILD_CONSENSUS_EMISSIONS"
    /\ IsOk(result)
    /\ Len(inputs.val.attester_pubkeys) = 2
    /\ inputs.val.attester_pubkeys[1] # inputs.val.attester_pubkeys[2]
    /\ inputs.val.attester_reward_share % 2 = 1

\* C13: BUILD_CONSENSUS_EMISSIONS fails exactly when there is no attester
\* and attester_share > 0, with NoAttestersForNonZeroShare; with no attester
\* and a zero share it returns the proposer's entry alone.
C13_NoAttestersPolicy ==
    op = "BUILD_CONSENSUS_EMISSIONS"
    => LET a == inputs.val
       IN  /\ IsErr(result) <=>
                  (a.attester_pubkeys = <<>> /\ a.attester_reward_share > 0)
           /\ IsErr(result) => result.err = NoAttestersForNonZeroShare
           /\ (a.attester_pubkeys = <<>> /\ a.attester_reward_share = 0) =>
                  result = Ok(<<<<a.proposer_pubkey,
                                  a.proposer_reward_share>>>>)

\* A positive share with no attester was refused.
C13_Witness ==
    /\ op = "BUILD_CONSENSUS_EMISSIONS"
    /\ inputs.val.attester_pubkeys = <<>>
    /\ inputs.val.attester_reward_share > 0
    /\ IsErr(result)

\* C18: validate_counts returns Ok exactly when the header's data_count is
\* data_len and its emissions_count is emissions_len; otherwise it returns
\* CountMismatch for data_count if that differs, else for emissions_count,
\* with the header's count as expected and the given length as actual.
C18_FirstMismatchReported ==
    op = "validate_counts" =>
        LET data_len == inputs.val.data_len
            emissions_len == inputs.val.emissions_len
        IN  /\ IsOk(result) <=>
                   /\ header.data_count = data_len
                   /\ header.emissions_count = emissions_len
            /\ header.data_count # data_len =>
                   result = Err(CountMismatch("data_count",
                                    header.data_count, data_len))
            /\ (header.data_count = data_len
                  /\ header.emissions_count # emissions_len) =>
                   result = Err(CountMismatch("emissions_count",
                                    header.emissions_count, emissions_len))

\* Both counts differed from the lengths and data_count was reported.
C18_Witness ==
    /\ op = "validate_counts"
    /\ header.data_count # inputs.val.data_len
    /\ header.emissions_count # inputs.val.emissions_len
    /\ IsErr(result)
    /\ result.err.field = "data_count"

\* C19: validate_for_attesters fails, with
\* NonZeroAttesterShareWithNoAttesters, exactly when the attester count is
\* 0 and attester_reward_share > 0.
C19_PolicyFailsOnlyWithoutAttesters ==
    op = "validate_for_attesters" =>
        LET cfg == inputs.val.cfg
            attesters_len == inputs.val.attesters_len
        IN  /\ IsErr(result) <=>
                   (attesters_len = 0 /\ cfg.attester_reward_share > 0)
            /\ IsErr(result) =>
                   result = Err(NonZeroAttesterShareWithNoAttesters)
            /\ ~IsErr(result) => result = Ok(<<>>)

\* A positive share smaller than the attester count was accepted.
C19_Witness ==
    /\ op = "validate_for_attesters"
    /\ inputs.val.cfg.attester_reward_share > 0
    /\ inputs.val.cfg.attester_reward_share < inputs.val.attesters_len
    /\ IsOk(result)

\* C20: MERKLE_ROOT of a single leaf x is the hash of MERKLE_LEAF_DOMAIN and
\* x: it is not x and it is no node hash.
C20_SingleLeafIsRehashed ==
    (op = "MERKLE_ROOT" /\ Len(inputs.val.leaves) = 1) =>
        LET x == inputs.val.leaves[1]
        IN  /\ result = sha256_concat(MERKLE_LEAF_DOMAIN, <<x>>)
            /\ result # x
            /\ result.dom # MERKLE_NODE_DOMAIN

\* The single leaf was itself the Merkle root of a single leaf.
C20_Witness ==
    /\ op = "MERKLE_ROOT"
    /\ inputs.val.leaves = <<MERKLE_ROOT(<<Raw32(0)>>)>>
    /\ result.pre = inputs.val.leaves

---------------------------------------------------------------------------
(* SpecBuildShort: DigL2Block::build once, on a few data bytes; what it    *)
(* returned is compared with its arguments.                                *)

\* The extra emissions build is given: a weight no policy hands out.
ExtraSet == {Emission(k, 2) : k \in Keys}

ShortBuildArgs ==
    [version : Versions,
     network_id : {171},
     epoch : {7},
     prev_block_root : {Raw32(0)},
     proposer_pubkey : Keys,
     data : SeqsUpTo(Bytes, MaxBuildData),
     extra_emissions : SeqsUpTo(ExtraSet, MaxExtra),
     attester_pubkeys : SeqsUpTo(Keys, MaxAttesters),
     cfg : {ConsensusEmissionConfig(p, a) :
                p \in ProposerShares, a \in AttesterShares}]

NextBuildShort == op = "init" /\ \E a \in ShortBuildArgs : Build(a)

SpecBuildShort == InitBuild /\ [][NextBuildShort]_vars

\* build was called with no attester and no extra emission.
BuiltWithProposerOnly ==
    /\ op = "build"
    /\ inputs.val.attester_pubkeys = <<>>
    /\ inputs.val.extra_emissions = <<>>

\* For every claim on the block build returned: build returned a block.
Built == op = "build" /\ IsOk(result)

\* C14 as stated: build with no attester and no extra emission returns a
\* block with the proposer's emission alone when attester_reward_share = 0,
\* and fails with NoAttestersForNonZeroShare when it is 1.
C14_ZeroAttestersDefinitionsError ==
    BuiltWithProposerOnly =>
        LET a == inputs.val
        IN  /\ a.cfg.attester_reward_share = 0 =>
                   /\ IsOk(result)
                   /\ result.val.body.emissions =
                          <<Emission(a.proposer_pubkey,
                                     a.cfg.proposer_reward_share)>>
            /\ a.cfg.attester_reward_share = 1 =>
                   /\ IsErr(result)
                   /\ result.err.source = NoAttestersForNonZeroShare

\* C14 amended: build with no attester and no extra emission returns a
\* block with the proposer's emission alone when attester_reward_share = 0,
\* and fails with the configuration error
\* Config(NonZeroAttesterShareWithNoAttesters) when it is 1.
C14_ZeroAttestersConfigError ==
    BuiltWithProposerOnly =>
        LET a == inputs.val
        IN  /\ a.cfg.attester_reward_share = 0 =>
                   /\ IsOk(result)
                   /\ result.val.body.emissions =
                          <<Emission(a.proposer_pubkey,
                                     a.cfg.proposer_reward_share)>>
            /\ a.cfg.attester_reward_share = 1 =>
                   result = Err(BlockError_Config(
                                    NonZeroAttesterShareWithNoAttesters))

\* build refused a share of 1 with no attester and no extra emission.
C14_Witness ==
    /\ BuiltWithProposerOnly
    /\ inputs.val.cfg.attester_reward_share = 1
    /\ IsErr(result)

\* C15: the emissions of a block build returned are the proposer's emission
\* (the header's proposer key, the policy's proposer share), then one
\* emission per attester key in the given order, then the extra emissions
\* in the given order.
C15_MandatoryEmissionsLead ==
    Built =>
        LET a == inputs.val
            n == Len(a.attester_pubkeys)
            emissions == result.val.body.emissions
            consensus == BUILD_CONSENSUS_EMISSIONS(a.proposer_pubkey,
                             a.attester_pubkeys, a.cfg.proposer_reward_share,
                             a.cfg.attester_reward_share).val
        IN  /\ Len(emissions) = 1 + n + Len(a.extra_emissions)
            /\ emissions[1].pubkey = result.val.header.proposer_pubkey
            /\ emissions[1].weight = a.cfg.proposer_reward_share
            /\ \A i \in 1..n : emissions[1 + i].pubkey = a.attester_pubkeys[i]
            /\ \A i \in 1..(1 + n) :
                   emissions[i] = Emission(consensus[i][1], consensus[i][2])
            /\ \A j \in 1..Len(a.extra_emissions) :
                   emissions[1 + n + j] = a.extra_emissions[j]

\* build returned a block for two different attesters and an extra
\* emission that is none of the mandatory ones.
C15_Witness ==
    /\ Built
    /\ Len(inputs.val.attester_pubkeys) = 2
    /\ inputs.val.attester_pubkeys[1] # inputs.val.attester_pubkeys[2]
    /\ inputs.val.extra_emissions # <<>>
    /\ \A i \in 1..3 : body.emissions[i] # inputs.val.extra_emissions[1]

\* C16: the header of a block build returned holds the version, network
\* id, epoch, previous block root and proposer key build was given, its
\* body holds the data bytes build was given in their order, and its
\* body_root is the root of that body.
C16_BuildPassesFieldsThrough ==
    Built =>
        LET a == inputs.val
            h == result.val.header
            b == result.val.body
        IN  /\ h.version = a.version
            /\ h.network_id = a.network_id
            /\ h.epoch = a.epoch
            /\ h.prev_block_root = a.prev_block_root
            /\ h.proposer_pubkey = a.proposer_pubkey
            /\ b.data = a.data
            /\ h.body_root = L2BlockBody_calculate_root(b)

\* build returned a block for data bytes that are not in ascending order.
C16_Witness ==
    /\ Built
    /\ inputs.val.data = <<1, 0>>
    /\ inputs.val.version = 2
    /\ inputs.val.attester_pubkeys # <<>>

\* C17: the header of a block build returned declares the number of data
\* bytes of its body and 1 + attesters + extra emissions, whatever the
\* sizes of the inputs.
C17_CountsAreLengths ==
    Built =>
        LET a == inputs.val
            h == result.val.header
        IN  /\ h.data_count = Len(result.val.body.data)
            /\ h.emissions_count =
                   1 + Len(a.attester_pubkeys) + Len(a.extra_emissions)

\* C22: build with no attester and a positive attester_reward_share returns
\* the configuration error Config(NonZeroAttesterShareWithNoAttesters) and
\* no block, and build returns the Definitions error for no input.
C22_PolicyValidatedFirst ==
    op = "build" =>
        LET a == inputs.val
        IN  /\ (a.attester_pubkeys = <<>>
                  /\ a.cfg.attester_reward_share > 0) =>
                   /\ result = Err(BlockError_Config(
                                       NonZeroAttesterShareWithNoAttesters))
                   /\ ~IsOk(result)
            /\ ~(IsErr(result) /\ result.err.kind = "Definitions")

\* build refused a share of 3 with no attester, data and an extra emission.
C22_Witness ==
    /\ op = "build"
    /\ inputs.val.attester_pubkeys = <<>>
    /\ inputs.val.cfg.attester_reward_share = 3
    /\ inputs.val.extra_emissions # <<>>
    /\ inputs.val.data # <<>>
    /\ IsErr(result)
    /\ result.err.kind = "Config"

---------------------------------------------------------------------------
(* SpecMerkle: one call of MERKLE_ROOT, statement by statement.  `inputs`  *)
(* holds the leaves, `op` the position in the function and `result` the    *)
(* local `level` until the function returns, then the value returned.      *)
(* The function runs on its caller's thread with nothing to wait for, so   *)
(* a step that is enabled is taken.                                        *)

Level(nodes) == [tag |-> "level", val |-> nodes]

\* The early return for no leaves, or the leaf hashes as the first level.
MerkleEntry ==
    /\ op = "entry"
    /\ IF inputs.val.leaves = <<>>
       THEN /\ result' = sha256_concat(MERKLE_EMPTY_DOMAIN, <<>>)
            /\ op' = "return"
       ELSE /\ result' = Level([i \in 1..Len(inputs.val.leaves) |->
                                   sha256_concat(MERKLE_LEAF_DOMAIN,
                                                 <<inputs.val.leaves[i]>>)])
            /\ op' = "loop"
    /\ UNCHANGED <<salt, header, body, prev, expected_version, inputs, changed>>

\* One round of `while level.len() > 1`.
MerkleRound ==
    /\ op = "loop"
    /\ Len(result.val) > 1
    /\ result' = Level(MerkleNextLevel(result.val))
    /\ UNCHANGED <<salt, header, body, prev, expected_version, inputs, op,
                   changed>>

\* The loop is left and level[0] returned.
MerkleReturn ==
    /\ op = "loop"
    /\ ~(Len(result.val) > 1)
    /\ result' = result.val[1]
    /\ op' = "return"
    /\ UNCHANGED <<salt, header, body, prev, expected_version, inputs, changed>>

InitMerkle ==
    /\ salt \in Salts
    /\ header = sample_header
    /\ body = L2BlockBody(<<>>, <<>>)
    /\ prev = Pair(header, body)
    /\ expected_version = None
    /\ result = NoResult
    /\ inputs \in {Some([leaves |-> l]) : l \in SeqsUpTo(Hash32Set, MaxItems)}
    /\ op = "entry"
    /\ changed = FALSE

NextMerkle ==
    \/ MerkleEntry
    \/ MerkleRound
    \/ MerkleReturn

SpecMerkle == InitMerkle /\ [][NextMerkle]_vars /\ WF_vars(NextMerkle)

\* The construction the documentation of MERKLE_ROOT describes: the node
\* over positions 2i-1 and 2i of a level, the last node standing for a
\* missing right neighbour.
RECURSIVE ReferenceReduce(_)
ReferenceReduce(nodes) ==
    IF Len(nodes) = 1 THEN nodes[1]
    ELSE ReferenceReduce(
             [i \in 1..((Len(nodes) + 1) \div 2) |->
                 LET left == nodes[2 * i - 1]
                     right == IF 2 * i <= Len(nodes) THEN nodes[2 * i]
                              ELSE nodes[Len(nodes)]
                 IN  [dom |-> MERKLE_NODE_DOMAIN, pre |-> <<left, right>>]])

ReferenceRoot(leaves) ==
    IF Len(leaves) = 0 THEN [dom |-> MERKLE_EMPTY_DOMAIN, pre |-> <<>>]
    ELSE ReferenceReduce([i \in 1..Len(leaves) |->
             [dom |-> MERKLE_LEAF_DOMAIN, pre |-> <<leaves[i]>>]])

\* C21: MERKLE_ROOT returns for every leaf sequence, what it returns is the
\* root of the reference construction (the empty-domain hash for no leaf,
\* else leaf hashes reduced pairwise with the last node of an odd level
\* duplicated), and every round of its loop makes the level shorter.
C21_MerkleRootTerminatesWithReference ==
    /\ <>(op = "return")
    /\ [](op = "return" => result = ReferenceRoot(inputs.val.leaves))
    /\ [][(op = "loop" /\ op' = "loop") =>
              Len(result'.val) < Len(result.val)]_vars

\* MERKLE_ROOT returned for three leaves: two rounds, both on an odd level
\* or its successor.
C21_Witness ==
    /\ op = "return"
    /\ Len(inputs.val.leaves) = 3
    /\ inputs.val.leaves[3] # inputs.val.leaves[2]

---------------------------------------------------------------------------
(* SpecAppend: a caller assembles a body and its header, pushes one more   *)
(* item to the body and hands the header and the longer body to            *)
(* DigL2Block::new.                                                        *)

NextAppend ==
    \/ ~changed /\ \E b \in Bytes : PushData(b)
    \/ ~changed /\ \E e \in EmissionSet : PushEmission(e)
    \/ changed /\ \E ev \in ExpectedVersions : New(ev)

SpecAppend == Init /\ [][NextAppend]_vars

\* The leaves of the two subroots of a body, as pushed and as sorted.
DataLeaves(b) == [i \in 1..Len(b.data) |-> COMPUTE_DATA_HASH(b.data[i])]
EmissionLeaves(b) ==
    [i \in 1..Len(b.emissions) |-> Emission_calculate_root(b.emissions[i])]

OddFromThree(n) == n >= 3 /\ n % 2 = 1

\* The last node of a level of odd length pushed once more.
LastAgain(l) == Append(l, l[Len(l)])

\* The body b with one more copy of the data byte of the largest hash.
LargestDataAgain(b) ==
    LET sorted == sort_unstable(DataLeaves(b))
        x == CHOOSE x \in {b.data[i] : i \in 1..Len(b.data)} :
                 COMPUTE_DATA_HASH(x) = sorted[Len(sorted)]
    IN  [b EXCEPT !.data = Append(@, x)]

\* The body b with one more copy of the emission of the largest hash.
LargestEmissionAgain(b) ==
    LET sorted == sort_unstable(EmissionLeaves(b))
        e == CHOOSE e \in {b.emissions[i] : i \in 1..Len(b.emissions)} :
                 Emission_calculate_root(e) = sorted[Len(sorted)]
    IN  [b EXCEPT !.emissions = Append(@, e)]

===========================================================================
